---- MODULE Spec2Model ----
(***************************************************************************)
(* babel-plugin-trace: labeled statements (trace:, log:, warn: or          *)
(* configured aliases) are rewritten into logging calls, or stripped.      *)
(*                                                                         *)
(* Strings that the plugin inspects (label names, contexts, file names,    *)
(* override tokens) are sequences of one-character strings, so that        *)
(* toLowerCase, includes, split and trim are computed and not assumed.     *)
(* A syntax node is a record                                               *)
(*    [t |-> type, n |-> name, k |-> children, h |-> handled, o |-> origin]*)
(* where h is the $handled symbol of the source and o is the path the node *)
(* had in the input tree (<<0>> for a node the plugin created from         *)
(* nothing); o stands for JavaScript object identity in the properties.    *)
(***************************************************************************)
EXTENDS Integers, Sequences, FiniteSets, TLC

VARIABLES
  ast,       \* the syntax tree of the file being compiled (mutated in place)
  orig,      \* the tree as it was parsed (never changes)
  todo,      \* the host traversal's queues, innermost first, each a list of paths
  status,    \* "running" or "error" (the handler threw)
  opts,      \* the plugin options object (normalizeOpts mutates it)
  env,       \* process.env.NODE_ENV and the three PRESERVE_* arrays
  file,      \* the resolved file name, as its path segments
  hist,      \* one entry per handleLabeledStatement call, oldest first
  call       \* the last call of a pure function, with its arguments and result

vars == <<ast, orig, todo, status, opts, env, file, hist, call>>

(***************************************************************************)
(* Characters and strings                                                  *)
(***************************************************************************)
UpperCase == <<"A","B","C","D","E","F","G","H","I","J","K","L","M",
               "N","O","P","Q","R","S","T","U","V","W","X","Y","Z">>
LowerCase == <<"a","b","c","d","e","f","g","h","i","j","k","l","m",
               "n","o","p","q","r","s","t","u","v","w","x","y","z">>
Digits == <<"0","1","2","3","4","5","6","7","8","9">>

ToLowerChar(c) ==
  IF \E i \in DOMAIN UpperCase : UpperCase[i] = c
  THEN LowerCase[CHOOSE i \in DOMAIN UpperCase : UpperCase[i] = c]
  ELSE c

\* String.prototype.toLowerCase
toLowerCase(s) == [i \in DOMAIN s |-> ToLowerChar(s[i])]

\* String.prototype.includes
includes(hay, needle) ==
  \E i \in 0..(Len(hay) - Len(needle)) : SubSeq(hay, i + 1, i + Len(needle)) = needle

RECURSIVE trimLeft(_)
trimLeft(s) == IF s # <<>> /\ Head(s) = " " THEN trimLeft(Tail(s)) ELSE s

RECURSIVE trimRight(_)
trimRight(s) ==
  IF s # <<>> /\ s[Len(s)] = " " THEN trimRight(SubSeq(s, 1, Len(s) - 1)) ELSE s

\* String.prototype.trim
trim(s) == trimRight(trimLeft(s))

\* String.prototype.split(','): the pieces between the commas, empty ones included
RECURSIVE split(_, _)
split(s, cur) ==
  IF s = <<>> THEN <<cur>>
  ELSE IF Head(s) = "," THEN <<cur>> \o split(Tail(s), <<>>)
  ELSE split(Tail(s), Append(cur, Head(s)))

\* Array.prototype.join
RECURSIVE join(_, _)
join(parts, sep) ==
  IF parts = <<>> THEN <<>>
  ELSE IF Len(parts) = 1 THEN parts[1]
  ELSE parts[1] \o sep \o join(Tail(parts), sep)

\* Array.prototype.filter(id => id) on an array of strings
RECURSIVE filterNonEmpty(_)
filterNonEmpty(xs) ==
  IF xs = <<>> THEN <<>>
  ELSE IF Head(xs) = <<>> THEN filterNonEmpty(Tail(xs))
  ELSE <<Head(xs)>> \o filterNonEmpty(Tail(xs))

\* The decimal digits of a natural number, as a string
RECURSIVE DecStr(_)
DecStr(n) == IF n < 10 THEN <<Digits[n + 1]>> ELSE DecStr(n \div 10) \o <<Digits[(n % 10) + 1]>>

\* (new Array(n + 1)).join(unit): n repetitions of unit
RECURSIVE repeat(_, _)
repeat(unit, n) == IF n = 0 THEN <<>> ELSE unit \o repeat(unit, n - 1)

(***************************************************************************)
(* normalizeEnv: an unset or empty variable is the empty string here       *)
(***************************************************************************)
normalizeEnv(input) ==
  IF input = <<>> THEN <<>>
  ELSE LET pieces == split(input, <<>>)
       IN  filterNonEmpty([i \in DOMAIN pieces |-> trim(toLowerCase(pieces[i]))])

(***************************************************************************)
(* Syntax nodes                                                            *)
(*   Program, BlockStatement, ClassBody, SequenceExpression: k is the list *)
(*   FunctionDeclaration, FunctionExpression, ClassMethod: k = <<body>>,   *)
(*     n the name (empty: no id, or a computed method key)                 *)
(*   ClassDeclaration, ClassExpression: k = <<ClassBody>>, n the id's name *)
(*   IfStatement: k = <<test, consequent>> or <<test, consequent, alt>>    *)
(*   LabeledStatement: n the label's name, k = <<body>>                    *)
(*   ExpressionStatement: k = <<expression>>                               *)
(*   CallExpression: k = <<callee>> \o arguments                           *)
(***************************************************************************)
Node(t, n, k) == [t |-> t, n |-> n, k |-> k, h |-> FALSE, o |-> <<0>>]

NoNode == Node("None", <<>>, <<>>)

FunctionTypes == {"FunctionDeclaration", "FunctionExpression",
                  "ArrowFunctionExpression", "ObjectMethod", "ClassMethod"}

\* The node at path p (a sequence of child indices) below n
RECURSIVE At(_, _)
At(n, p) == IF p = <<>> THEN n ELSE At(n.k[Head(p)], Tail(p))

\* n with the child at the non-empty path p replaced by the nodes ns, in order
RECURSIVE SpliceAt(_, _, _)
SpliceAt(n, p, ns) ==
  IF Len(p) = 1
  THEN [n EXCEPT !.k = SubSeq(n.k, 1, p[1] - 1) \o ns \o SubSeq(n.k, p[1] + 1, Len(n.k))]
  ELSE [n EXCEPT !.k[p[1]] = SpliceAt(n.k[p[1]], Tail(p), ns)]

\* The input tree with every node's origin set to its path
RECURSIVE Tag(_, _)
Tag(n, p) == [n EXCEPT !.o = p, !.k = [i \in DOMAIN n.k |-> Tag(n.k[i], p \o <<i>>)]]

\* Every path of the tree below n, n's own path p included
RECURSIVE Paths(_, _)
Paths(n, p) == {p} \cup UNION {Paths(n.k[i], p \o <<i>>) : i \in DOMAIN n.k}

\* node.loc.start.line: one statement per line and one line per nesting level
\* is all the model keeps of the source positions
LineOf(n) == Len(n.o)

(***************************************************************************)
(* Literal builders of babel-types, as the handler uses them               *)
(***************************************************************************)
stringLiteral(s) == Node("StringLiteral", s, <<>>)
booleanLiteral(b) ==
  Node("BooleanLiteral", IF b THEN <<"t","r","u","e">> ELSE <<"f","a","l","s","e">>, <<>>)
numericLiteral(i) == Node("NumericLiteral", DecStr(i), <<>>)
identifier(s) == Node("Identifier", s, <<>>)

console == <<"c","o","n","s","o","l","e">>

(***************************************************************************)
(* getLogFunction(logLevel): the renderer it returns, applied              *)
(***************************************************************************)
\* A faulty renderer: new Array(indent), one unit of indentation short
logOneShort(logLevel, message, metadata) ==
  LET prefix == metadata.context \o <<":">>
                  \o (IF metadata.indent > 1 THEN repeat(<<" ", " ">>, metadata.indent - 1)
                      ELSE <<>>)
      callee == Node("MemberExpression", <<>>, <<identifier(console), identifier(logLevel)>>)
  IN  IF message.content.t = "SequenceExpression"
      THEN Node("CallExpression", <<>>,
                <<callee>> \o <<stringLiteral(prefix)>> \o message.content.k)
      ELSE Node("CallExpression", <<>>,
                <<callee, stringLiteral(prefix), message.content>>)

log(logLevel, message, metadata) ==
  LET prefix0 == metadata.context \o <<":">>
      prefix == IF metadata.indent # 0
                THEN prefix0 \o repeat(<<" ", " ">>, metadata.indent)
                ELSE prefix0
      callee == Node("MemberExpression", <<>>, <<identifier(console), identifier(logLevel)>>)
  IN  IF message.content.t = "SequenceExpression"
      THEN Node("CallExpression", <<>>,
                <<callee>> \o <<stringLiteral(prefix)>> \o message.content.k)
      ELSE Node("CallExpression", <<>>,
                <<callee, stringLiteral(prefix), message.content>>)

(***************************************************************************)
(* expression(input, template)(ids): the template's identifiers that name  *)
(* a key of ids are replaced by that key's node; the call expression of    *)
(* the resulting statement is returned.  A template is kept parsed.        *)
(***************************************************************************)
\* The keys of the Message object, as identifiers a template may name
MessageKeys == {<<"p","r","e","f","i","x">>, <<"c","o","n","t","e","n","t">>,
                <<"h","a","s","S","t","a","r","t","M","e","s","s","a","g","e">>,
                <<"i","s","S","t","a","r","t","M","e","s","s","a","g","e">>,
                <<"i","n","d","e","n","t">>, <<"p","a","r","e","n","t","N","a","m","e">>,
                <<"f","i","l","e","n","a","m","e">>, <<"d","i","r","n","a","m","e">>,
                <<"b","a","s","e","n","a","m","e">>, <<"e","x","t","n","a","m","e">>}

MessageField(message, key) ==
  CASE key = <<"p","r","e","f","i","x">> -> message.prefix
    [] key = <<"c","o","n","t","e","n","t">> -> message.content
    [] key = <<"h","a","s","S","t","a","r","t","M","e","s","s","a","g","e">> -> message.hasStartMessage
    [] key = <<"i","s","S","t","a","r","t","M","e","s","s","a","g","e">> -> message.isStartMessage
    [] key = <<"i","n","d","e","n","t">> -> message.indent
    [] key = <<"p","a","r","e","n","t","N","a","m","e">> -> message.parentName
    [] key = <<"f","i","l","e","n","a","m","e">> -> message.filename
    [] key = <<"d","i","r","n","a","m","e">> -> message.dirname
    [] key = <<"b","a","s","e","n","a","m","e">> -> message.basename
    [] key = <<"e","x","t","n","a","m","e">> -> message.extname

RECURSIVE expression(_, _)
expression(tpl, message) ==
  IF tpl.t = "Identifier" /\ tpl.n \in MessageKeys
  THEN MessageField(message, tpl.n)
  ELSE [tpl EXCEPT !.k = [i \in DOMAIN tpl.k |-> expression(tpl.k[i], message)]]

(***************************************************************************)
(* Renderers: the values of opts.aliases                                   *)
(*   "console"  a function built by getLogFunction(level)                  *)
(*   "string"   a non-empty template text, not yet wrapped                 *)
(*   "template" the wrapper normalizeOpts builds around a template text    *)
(*   "empty"    the empty string (falsy)                                   *)
(*   "inherited" a property of Object.prototype, found by aliases[name]    *)
(*              for a name that is no own key (truthy, not a renderer)     *)
(***************************************************************************)
Renderer(kind, level, tpl) == [kind |-> kind, level |-> level, tpl |-> tpl]

LogLevelLog == <<"l","o","g">>
LogLevelWarn == <<"w","a","r","n">>

Undefined == Renderer("undefined", <<>>, NoNode)

\* Names every object literal inherits from Object.prototype
ObjectPrototypeKeys == {<<"v","a","l","u","e","O","f">>,
                        <<"t","o","S","t","r","i","n","g">>,
                        <<"c","o","n","s","t","r","u","c","t","o","r">>}

\* opts.aliases[name]: an own key, else the prototype chain, else undefined
AliasLookup(aliases, name) ==
  IF name \in DOMAIN aliases THEN aliases[name]
  ELSE IF name \in ObjectPrototypeKeys THEN Renderer("inherited", <<>>, NoNode)
  ELSE Undefined

Truthy(r) == r.kind \notin {"undefined", "empty"}

\* opts.aliases[name](message, metadata); a value that is no renderer yields
\* no node, and t.expressionStatement then throws a TypeError
Render(r, message, metadata) ==
  CASE r.kind = "console" -> log(r.level, message, metadata)
    [] r.kind = "template" -> expression(r.tpl, message)
    [] OTHER -> NoNode

(***************************************************************************)
(* normalizeOpts                                                           *)
(***************************************************************************)
DefaultAliases ==
  LET logFn == Renderer("console", LogLevelLog, NoNode)
  IN  (<<"l","o","g">> :> logFn) @@ (<<"t","r","a","c","e">> :> logFn)
      @@ (<<"w","a","r","n">> :> Renderer("console", LogLevelWarn, NoNode))

\* A faulty normalizeOpts that does not look at the marker and wraps what it
\* wrapped before
normalizeOptsRewrap(o) ==
  IF ~o.hasAliases
  THEN [o EXCEPT !.hasAliases = TRUE, !.aliases = DefaultAliases, !.normalized = TRUE]
  ELSE [o EXCEPT !.aliases = [key \in DOMAIN o.aliases |->
                                IF o.aliases[key].kind = "string"
                                THEN [o.aliases[key] EXCEPT !.kind = "template"]
                                ELSE IF o.aliases[key].kind = "template"
                                THEN [o.aliases[key] EXCEPT
                                        !.tpl = Node("Wrapped", <<>>, <<@>>)]
                                ELSE o.aliases[key]],
                 !.normalized = TRUE]

normalizeOpts(o) ==
  IF o.normalized THEN o
  ELSE IF ~o.hasAliases
  THEN [o EXCEPT !.hasAliases = TRUE, !.aliases = DefaultAliases, !.normalized = TRUE]
  ELSE [o EXCEPT !.aliases = [key \in DOMAIN o.aliases |->
                                IF o.aliases[key].kind = "string"
                                THEN [o.aliases[key] EXCEPT !.kind = "template"]
                                ELSE o.aliases[key]],
                 !.normalized = TRUE]

(***************************************************************************)
(* Node's path module, on a resolved absolute path kept as its segments    *)
(***************************************************************************)
\* The path as text: "/" before every segment, "/" alone for the root
RECURSIVE PathStr(_)
PathStr(segs) ==
  IF segs = <<>> THEN <<"/">>
  ELSE IF Len(segs) = 1 THEN <<"/">> \o segs[1]
  ELSE <<"/">> \o segs[1] \o PathStr(Tail(segs))

\* fspath.dirname
fsDirname(segs) == IF segs = <<>> THEN <<>> ELSE SubSeq(segs, 1, Len(segs) - 1)

\* fspath.basename(path)
fsBasename(segs) == IF segs = <<>> THEN <<>> ELSE segs[Len(segs)]

\* fspath.extname: from the last dot of the last segment, unless that dot
\* is its first character or there is none
fsExtname(segs) ==
  LET name == fsBasename(segs)
      dots == {i \in DOMAIN name : name[i] = "."}
  IN  IF dots = {} THEN <<>>
      ELSE LET d == CHOOSE i \in dots : \A j \in dots : j <= i
           IN  IF d = 1 THEN <<>> ELSE SubSeq(name, d, Len(name))

\* fspath.basename(path, ext)
fsBasenameExt(segs, ext) ==
  LET name == fsBasename(segs)
  IN  IF ext # <<>> /\ Len(name) > Len(ext)
         /\ SubSeq(name, Len(name) - Len(ext) + 1, Len(name)) = ext
      THEN SubSeq(name, 1, Len(name) - Len(ext))
      ELSE name

index == <<"i","n","d","e","x">>
srcDir == <<"s","r","c">>
libDir == <<"l","i","b">>

\* generatePrefix(dirname, basename); dirname as its segments
generatePrefix(dirname, basename) ==
  IF basename # index THEN basename
  ELSE LET basename2 == fsBasename(dirname)
       IN  IF basename2 # srcDir /\ basename2 # libDir THEN basename2
           ELSE fsBasename(fsDirname(dirname))

(***************************************************************************)
(* collectMetadata(path, opts) for the labeled statement at path p of tree *)
(***************************************************************************)
NoPath == <<-1>>

\* path.getAncestry().slice(1): the paths of the ancestors, innermost first
Ancestry(p) == [i \in 1..Len(p) |-> SubSeq(p, 1, Len(p) - i)]

computedMethodName == <<"[","c","o","m","p","u","t","e","d"," ","m","e","t","h","o","d","]">>
anonymousName(line) == <<"[","a","n","o","n","y","m","o","u","s","@">> \o DecStr(line) \o <<"]">>
anonymousClassName(line) ==
  <<"[","a","n","o","n","y","m","o","u","s"," ","c","l","a","s","s","@">> \o DecStr(line) \o <<"]">>

\* A faulty step that pushes the name where the source unshifts it
AncestorStepPush(tree, acc, q) ==
  LET item == At(tree, q)
      setParent == IF acc.parent = NoPath THEN q ELSE acc.parent
  IN  IF item.t \in {"ClassMethod", "ClassDeclaration"} \cup FunctionTypes
      THEN [acc EXCEPT !.parent = setParent,
                       !.parts = @ \o <<IF item.n # <<>> THEN item.n ELSE computedMethodName>>]
      ELSE IF item.t = "Program"
      THEN [acc EXCEPT !.parent = setParent]
      ELSE IF acc.parent = NoPath /\ item.t # "ClassBody" /\ item.t # "BlockStatement"
      THEN [acc EXCEPT !.indent = @ + 1]
      ELSE acc

\* One step of the reduce over the ancestry: acc is [parts, parent, indent]
AncestorStep(tree, acc, q) ==
  LET item == At(tree, q)
      setParent == IF acc.parent = NoPath THEN q ELSE acc.parent
  IN  IF item.t = "ClassMethod"
      THEN [acc EXCEPT !.parent = setParent,
                       !.parts = <<IF item.n # <<>> THEN item.n ELSE computedMethodName>> \o @]
      ELSE IF item.t = "ClassDeclaration"
      THEN [acc EXCEPT !.parent = setParent,
                       !.parts = <<IF item.n # <<>> THEN item.n
                                   ELSE anonymousClassName(LineOf(item))>> \o @]
      ELSE IF item.t \in FunctionTypes
      THEN [acc EXCEPT !.parent = setParent,
                       !.parts = <<IF item.n # <<>> THEN item.n
                                   ELSE anonymousName(LineOf(item))>> \o @]
      ELSE IF item.t = "Program"
      THEN [acc EXCEPT !.parent = setParent]
      ELSE IF acc.parent = NoPath /\ item.t # "ClassBody" /\ item.t # "BlockStatement"
      THEN [acc EXCEPT !.indent = @ + 1]
      ELSE acc

RECURSIVE AncestryReduce(_, _, _)
AncestryReduce(tree, acc, qs) ==
  IF qs = <<>> THEN acc
  ELSE AncestryReduce(tree, AncestorStep(tree, acc, Head(qs)), Tail(qs))

\* A faulty scan that does not look at the handled marker
RECURSIVE StartScanIgnoresHandled(_, _, _, _, _)
StartScanIgnoresHandled(children, base, i, p, aliases) ==
  IF i > Len(children) THEN <<FALSE, FALSE>>
  ELSE LET child == children[i]
       IN  IF child.t # "LabeledStatement" THEN <<FALSE, FALSE>>
           ELSE IF Truthy(AliasLookup(aliases, child.n)) THEN <<TRUE, base \o <<i>> = p>>
           ELSE StartScanIgnoresHandled(children, base, i + 1, p, aliases)

\* The loop over parent.get('body').get('body'), from child i on:
\* <<hasStartMessage, isStartMessage>>
RECURSIVE StartScan(_, _, _, _, _)
StartScan(children, base, i, p, aliases) ==
  IF i > Len(children) THEN <<FALSE, FALSE>>
  ELSE LET child == children[i]
       IN  IF child.h THEN <<TRUE, FALSE>>
           ELSE IF child.t # "LabeledStatement" THEN <<FALSE, FALSE>>
           ELSE IF Truthy(AliasLookup(aliases, child.n)) THEN <<TRUE, base \o <<i>> = p>>
           ELSE StartScan(children, base, i + 1, p, aliases)

collectMetadata(tree, p, o) ==
  LET filename == file
      dirname == fsDirname(filename)
      extname == fsExtname(filename)
      basename == fsBasenameExt(filename, extname)
      prefix == generatePrefix(dirname, basename)
      acc == AncestryReduce(tree, [parts |-> <<>>, parent |-> NoPath, indent |-> 0],
                            Ancestry(p))
      parentName == join(acc.parts, <<":">>)
      parent == acc.parent
      flags == IF parent # NoPath /\ At(tree, parent).t # "Program"
               THEN StartScan(At(tree, parent).k[1].k, parent \o <<1>>, 1, p, o.aliases)
               ELSE <<FALSE, FALSE>>
  IN  [indent |-> acc.indent, prefix |-> prefix, parentName |-> parentName,
       context |-> prefix \o <<":">> \o parentName,
       hasStartMessage |-> flags[1], isStartMessage |-> flags[2],
       filename |-> PathStr(filename), dirname |-> PathStr(dirname),
       basename |-> basename, extname |-> extname]

NoMetadata ==
  [indent |-> 0, prefix |-> <<>>, parentName |-> <<>>, context |-> <<>>,
   hasStartMessage |-> FALSE, isStartMessage |-> FALSE,
   filename |-> <<>>, dirname |-> <<>>, basename |-> <<>>, extname |-> <<>>]

(***************************************************************************)
(* shouldStrip(name, metadata, {strip})                                    *)
(* A strip value is [kind, s, o]: undefined, false, true, a string s, or   *)
(* an object o (a function from its keys to "true", "false" or "object").  *)
(* env.NODE_ENV is a string, EnvUnset when the variable is not set.        *)
(***************************************************************************)
EnvUnset == "undefined"

StripValue(kind, s, o) == [kind |-> kind, s |-> s, o |-> o]
NoKeys == [key \in {} |-> "false"]
StripUndefined == StripValue("undefined", "", NoKeys)
StripFalse == StripValue("false", "", NoKeys)
StripTrue == StripValue("true", "", NoKeys)
StripString(s) == StripValue("string", s, NoKeys)
StripObject(o) == StripValue("object", "", o)

\* strip is truthy: not undefined, false or the empty string
StripTruthy(strip) ==
  strip.kind \in {"true", "object"} \/ (strip.kind = "string" /\ strip.s # "")

\* strip === process.env.NODE_ENV
StripIsEnv(strip) == strip.kind = "string" /\ env.NODE_ENV # EnvUnset /\ strip.s = env.NODE_ENV

\* strip[process.env.NODE_ENV] is truthy; an unset variable reads the key
\* "undefined"; true and the strings have no property named like an environment
StripHasEnv(strip) ==
  /\ strip.kind = "object"
  /\ env.NODE_ENV \in DOMAIN strip.o
  /\ strip.o[env.NODE_ENV] \in {"true", "object"}

\* A faulty shouldStrip that compares the label's name as written
shouldStripCaseSensitive(name, metadata, strip) ==
  IF StripTruthy(strip) /\ (strip.kind = "true" \/ StripIsEnv(strip) \/ StripHasEnv(strip))
  THEN ~ \/ \E i \in DOMAIN env.PRESERVE_CONTEXTS :
               includes(toLowerCase(metadata.context), env.PRESERVE_CONTEXTS[i])
         \/ \E i \in DOMAIN env.PRESERVE_FILES :
               includes(toLowerCase(metadata.filename), env.PRESERVE_FILES[i])
         \/ \E i \in DOMAIN env.PRESERVE_LEVELS : name = env.PRESERVE_LEVELS[i]
  ELSE FALSE

shouldStrip(name, metadata, strip) ==
  IF StripTruthy(strip) /\ (strip.kind = "true" \/ StripIsEnv(strip) \/ StripHasEnv(strip))
  THEN IF /\ Len(env.PRESERVE_CONTEXTS) # 0
          /\ \E i \in DOMAIN env.PRESERVE_CONTEXTS :
               includes(toLowerCase(metadata.context), env.PRESERVE_CONTEXTS[i])
       THEN FALSE
       ELSE IF /\ Len(env.PRESERVE_FILES) # 0
               /\ \E i \in DOMAIN env.PRESERVE_FILES :
                    includes(toLowerCase(metadata.filename), env.PRESERVE_FILES[i])
       THEN FALSE
       ELSE IF /\ Len(env.PRESERVE_LEVELS) # 0
               /\ \E i \in DOMAIN env.PRESERVE_LEVELS :
                    toLowerCase(name) = env.PRESERVE_LEVELS[i]
       THEN FALSE
       ELSE TRUE
  ELSE FALSE

(***************************************************************************)
(* handleLabeledStatement                                                  *)
(***************************************************************************)
SideEffectError == "Logging statements cannot have side effects."
TypeError == "TypeError"
NoError == ""

\* The node types of the validating visitor; Function is babel's alias
Denied == {"VariableDeclaration", "AssignmentExpression", "UpdateExpression",
           "YieldExpression", "ReturnStatement"} \cup FunctionTypes

\* The Message record the handler builds for one expression statement
Message(statement, metadata) ==
  [prefix |-> stringLiteral(metadata.prefix),
   content |-> statement.k[1],
   hasStartMessage |-> booleanLiteral(metadata.hasStartMessage),
   isStartMessage |-> booleanLiteral(metadata.isStartMessage),
   indent |-> numericLiteral(metadata.indent),
   parentName |-> stringLiteral(metadata.parentName),
   filename |-> stringLiteral(metadata.filename),
   dirname |-> stringLiteral(metadata.dirname),
   basename |-> stringLiteral(metadata.basename),
   extname |-> stringLiteral(metadata.extname)]

\* path.traverse({...}) below the labeled statement, in document order: a
\* node is entered before its children, a replaced statement is entered
\* again (and its children after it), and a throw leaves what was already
\* replaced in the tree.  The result is [n |-> the subtree, err |-> error].
RECURSIVE Traverse(_, _, _)
RECURSIVE TraverseChildren(_, _, _, _)
Traverse(n, renderer, metadata) ==
  IF n.t \in Denied THEN [n |-> n, err |-> SideEffectError]
  ELSE IF n.t = "ExpressionStatement" /\ ~n.h
  THEN LET rendered == Render(renderer, Message(n, metadata), metadata)
           replacement == [Node("ExpressionStatement", <<>>, <<rendered>>)
                             EXCEPT !.h = TRUE, !.o = n.o]
       IN  IF rendered = NoNode THEN [n |-> n, err |-> TypeError]
           ELSE TraverseChildren(replacement, 1, renderer, metadata)
  ELSE TraverseChildren(n, 1, renderer, metadata)

TraverseChildren(n, i, renderer, metadata) ==
  IF i > Len(n.k) THEN [n |-> n, err |-> NoError]
  ELSE LET w == Traverse(n.k[i], renderer, metadata)
           n2 == [n EXCEPT !.k[i] = w.n]
       IN  IF w.err # NoError THEN [n |-> n2, err |-> w.err]
           ELSE TraverseChildren(n2, i + 1, renderer, metadata)

\* A faulty remove: the label goes, its body stays
removeKeepsBody(tree, p) == SpliceAt(tree, p, <<At(tree, p).k[1]>>)

\* A faulty replaceWithMultiple: the block is put in place of the label whole
replaceWithBlock(tree, p, nodes) == SpliceAt(tree, p, <<Node("BlockStatement", <<>>, nodes)>>)

\* path.remove(), path.replaceWith(node), path.replaceWithMultiple(nodes) for
\* a path that is an element of a statement list
remove(tree, p) == SpliceAt(tree, p, <<>>)
replaceWith(tree, p, node) == SpliceAt(tree, p, <<node>>)
replaceWithMultiple(tree, p, nodes) == SpliceAt(tree, p, nodes)

\* The result of one call: the tree and options it leaves, what it did
\* (ignored, stripped, rewritten, error), the metadata it collected, the
\* error it threw and the number of statements that replaced the label
Outcome(tree, o, what, metadata, err, count, multiple) ==
  [ast |-> tree, opts |-> o, outcome |-> what, metadata |-> metadata,
   err |-> err, count |-> count, multiple |-> multiple]

handleLabeledStatement(tree, p, o0) ==
  LET o == normalizeOpts(o0)
      node == At(tree, p)
      renderer == AliasLookup(o.aliases, node.n)
  IN  IF ~Truthy(renderer)
      THEN Outcome(tree, o, "ignored", NoMetadata, NoError, 1, FALSE)
      ELSE
        LET metadata == collectMetadata(tree, p, o)
        IN  IF shouldStrip(node.n, metadata, o.strip)
            THEN Outcome(remove(tree, p), o, "stripped", metadata, NoError, 0, FALSE)
            ELSE
              LET w == Traverse(node.k[1], renderer, metadata)
                  body == w.n
              IN  IF w.err # NoError
                  THEN Outcome(SpliceAt(tree, p, <<[node EXCEPT !.k = <<body>>]>>), o,
                               "error", metadata, w.err, 1, FALSE)
                  ELSE IF body.t = "BlockStatement"
                  THEN Outcome(replaceWithMultiple(tree, p, body.k), o,
                               "rewritten", metadata, NoError, Len(body.k), TRUE)
                  ELSE Outcome(replaceWith(tree, p, body), o,
                               "rewritten", metadata, NoError, 1, FALSE)

(***************************************************************************)
(* The Program visitor: program.traverse({LabeledStatement}) of the host.  *)
(* todo is the stack of the traversal's queues: a list container is one    *)
(* queue, a single child a queue of one.  A path replaced by one node is   *)
(* queued again at once (the priority queue); nodes spliced into a list    *)
(* are queued behind the list's remaining elements.  Only statements are   *)
(* queued: the inputs hold no statement inside an expression, and no       *)
(* visitor of this traversal matches an expression.                        *)
(***************************************************************************)
ListTypes == {"Program", "BlockStatement", "ClassBody"}
StatementTypes == {"Program", "BlockStatement", "ClassBody", "FunctionDeclaration",
                   "ClassDeclaration", "ClassMethod", "IfStatement", "LabeledStatement",
                   "ExpressionStatement", "VariableDeclaration", "ReturnStatement",
                   "EmptyStatement"}

RECURSIVE dropEmpty(_)
dropEmpty(frames) ==
  IF frames = <<>> THEN <<>>
  ELSE IF Head(frames) = <<>> THEN dropEmpty(Tail(frames))
  ELSE <<Head(frames)>> \o dropEmpty(Tail(frames))

\* The queues for the children of the node at p
ChildFrames(p, node) ==
  LET kids == [i \in DOMAIN node.k |->
                 IF node.k[i].t \in StatementTypes THEN <<p \o <<i>>>> ELSE <<>>]
  IN  IF node.t \in ListTypes
      THEN <<[i \in DOMAIN node.k |-> p \o <<i>>]>>
      ELSE kids

\* A queued path after the element at p was replaced by 1 + d elements
Shift(q, p, d) ==
  IF /\ Len(q) >= Len(p)
     /\ SubSeq(q, 1, Len(p) - 1) = SubSeq(p, 1, Len(p) - 1)
     /\ q[Len(p)] > p[Len(p)]
  THEN [q EXCEPT ![Len(p)] = @ + d]
  ELSE q

ShiftFrames(frames, p, d) ==
  [f \in DOMAIN frames |-> [i \in DOMAIN frames[f] |-> Shift(frames[f][i], p, d)]]

Running == status = "running" /\ todo # <<>>
Current == todo[1][1]
Popped == <<Tail(todo[1])>> \o Tail(todo)

\* What one call of the handler was given and what it did: the labeled
\* statement as it was handed over, its path, and the handler's result
HistEntry(node, p, r) ==
  [o |-> node.o, name |-> node.n, node |-> node, path |-> p, outcome |-> r.outcome,
   metadata |-> r.metadata, err |-> r.err, count |-> r.count, changed |-> r.ast # ast]

\* LabeledStatement (path) { handleLabeledStatement(babel, path, opts) }
VisitLabeledStatement ==
  /\ Running
  /\ At(ast, Current).t = "LabeledStatement"
  /\ LET p == Current
         node == At(ast, p)
         r == handleLabeledStatement(ast, p, opts)
         inserted == [j \in 1..r.count |-> [p EXCEPT ![Len(p)] = @ + j - 1]]
         shifted == ShiftFrames(Popped, p, r.count - 1)
     IN  /\ ast' = r.ast
         /\ opts' = r.opts
         /\ hist' = Append(hist, HistEntry(node, p, r))
         /\ status' = IF r.outcome = "error" THEN "error" ELSE status
         /\ todo' = CASE r.outcome = "ignored" -> dropEmpty(ChildFrames(p, node) \o Popped)
                      [] r.outcome = "error" -> <<>>
                      [] r.outcome = "stripped" -> dropEmpty(shifted)
                      [] r.outcome = "rewritten" /\ ~r.multiple -> dropEmpty(<<<<p>>>> \o Popped)
                      [] r.outcome = "rewritten" /\ r.multiple ->
                           dropEmpty(<<shifted[1] \o inserted>> \o Tail(shifted))
  /\ UNCHANGED <<orig, env, file, call>>

\* Any other statement: no visitor runs, its children are queued
VisitNode ==
  /\ Running
  /\ At(ast, Current).t # "LabeledStatement"
  /\ todo' = dropEmpty(ChildFrames(Current, At(ast, Current)) \o Popped)
  /\ UNCHANGED <<ast, orig, status, opts, env, file, hist, call>>

(***************************************************************************)
(* Inputs: source text, parsed                                             *)
(***************************************************************************)
trace == <<"t","r","a","c","e">>
warn == <<"w","a","r","n">>
logLabel == <<"l","o","g">>
outer == <<"o","u","t","e","r">>
valueOf == <<"v","a","l","u","e","O","f">>

Expr(e) == Node("ExpressionStatement", <<>>, <<e>>)
Block(ss) == Node("BlockStatement", <<>>, ss)
Label(l, body) == Node("LabeledStatement", l, <<body>>)
If(test, consequent) == Node("IfStatement", <<>>, <<test, consequent>>)
IfElse(test, consequent, alternate) ==
  Node("IfStatement", <<>>, <<test, consequent, alternate>>)
Function(name, ss) == Node("FunctionDeclaration", name, <<Block(ss)>>)
Class(name, method, ss) ==
  Node("ClassDeclaration", name,
       <<Node("ClassBody", <<>>, <<Node("ClassMethod", method, <<Block(ss)>>)>>)>>)
Program(ss) == Node("Program", <<>>, ss)

hi == stringLiteral(<<"h","i">>)                       \* 'hi'
usr == identifier(<<"u">>)                             \* u
x == identifier(<<"x">>)
five == Node("NumericLiteral", <<"5">>, <<>>)
seq == Node("SequenceExpression", <<>>, <<hi, usr>>)   \* 'hi', u
assign == Node("AssignmentExpression", <<"=">>, <<x, five>>)      \* x = 5
update == Node("UpdateExpression", <<"+","+">>, <<x>>)            \* x++
yield == Node("YieldExpression", <<>>, <<x>>)                     \* yield x
fnExpr == Node("FunctionExpression", <<>>, <<Block(<<>>)>>)       \* function () {}
classExpr == Node("ClassExpression", <<>>, <<Node("ClassBody", <<>>, <<>>)>>) \* class {}
seqAssign == Node("SequenceExpression", <<>>, <<hi, assign>>)     \* 'hi', x = 5
fooCall == Node("CallExpression", <<>>, <<identifier(<<"f","o","o">>)>>) \* foo()
varDecl == Node("VariableDeclaration", <<>>, <<>>)                \* var x
return == Node("ReturnStatement", <<>>, <<>>)                     \* return

\* Bodies without a side effect
PureBodies ==
  {Expr(hi), Expr(seq), Block(<<Expr(hi), Expr(usr)>>), Block(<<>>),
   If(usr, Block(<<Expr(hi)>>)),
   Label(logLabel, Expr(hi)),
   Block(<<Label(warn, Expr(hi)), Expr(usr)>>)}

\* Bodies that hold a construct of the deny list, at some depth
ImpureBodies ==
  {Expr(assign), Expr(update), Expr(yield), Expr(fnExpr), Expr(seqAssign),
   varDecl, return, Block(<<Expr(hi), Expr(assign)>>),
   If(usr, Block(<<Expr(assign)>>))}

\* A body with a class definition that has no method
ClassBodies == {Expr(classExpr)}

\* The statements a scope's body is made of: logging labels, labels that are
\* no alias (outer) or name a property every object inherits (valueOf),
\* plain statements, and a logging label inside an if
Items ==
  {Label(trace, b) : b \in PureBodies \cup ImpureBodies \cup ClassBodies}
  \cup {Label(warn, b) : b \in {Expr(hi), Expr(assign), Block(<<Expr(hi), Expr(usr)>>)}}
  \cup {Label(outer, b) : b \in {Expr(hi), Block(<<Label(trace, Expr(hi))>>)}}
  \cup {Label(valueOf, b) : b \in {Block(<<>>), Expr(hi)}}
  \cup {Expr(fooCall), If(usr, Block(<<Label(logLabel, Expr(hi))>>))}

\* The statements that may stand before and after an item
Simple == {Label(trace, Expr(hi)), Expr(fooCall)}

MaxAround == 2

SeqsUpTo(S, n) == UNION {[1..m -> S] : m \in 0..n}

Bodies ==
  {pre \o <<item>> \o post :
     pre \in SeqsUpTo(Simple, MaxAround), item \in Items, post \in SeqsUpTo(Simple, MaxAround)}

fName == <<"f">>

Programs ==
  {Program(b) : b \in {b \in Bodies : Len(b) <= MaxAround + 1}}
  \cup {Program(<<Function(fName, b)>>) : b \in {b \in Bodies : Len(b) <= MaxAround + 1}}

(***************************************************************************)
(* Configurations                                                          *)
(***************************************************************************)
Options(hasAliases, aliases, strip) ==
  [hasAliases |-> hasAliases, aliases |-> aliases, strip |-> strip, normalized |-> FALSE]

NoAliases == [l \in {} |-> Undefined]

\* 'console.log(prefix, content)'
KeepTemplate ==
  Node("CallExpression", <<>>,
       <<Node("MemberExpression", <<>>, <<identifier(console), identifier(LogLevelLog)>>),
         identifier(<<"p","r","e","f","i","x">>), identifier(<<"c","o","n","t","e","n","t">>)>>)

\* 'console.warn(parentName, message)', the warn template of test/index.js
TestWarnTemplate ==
  Node("CallExpression", <<>>,
       <<Node("MemberExpression", <<>>, <<identifier(console), identifier(LogLevelWarn)>>),
         identifier(<<"p","a","r","e","n","t","N","a","m","e">>),
         identifier(<<"m","e","s","s","a","g","e">>)>>)

TemplateAliases ==
  (trace :> Renderer("string", <<>>, KeepTemplate))
  @@ (warn :> Renderer("string", <<>>, TestWarnTemplate))

Env(nodeEnv, traceContext, traceFile, traceLevel) ==
  [NODE_ENV |-> nodeEnv,
   PRESERVE_CONTEXTS |-> normalizeEnv(traceContext),
   PRESERVE_FILES |-> normalizeEnv(traceFile),
   PRESERVE_LEVELS |-> normalizeEnv(traceLevel)]

\* The plugin options and the environment of a build
Configs ==
  {<<Options(FALSE, NoAliases, StripUndefined), Env("development", <<>>, <<>>, <<>>)>>,
   <<Options(FALSE, NoAliases, StripTrue), Env("development", <<>>, <<>>, <<>>)>>,
   <<Options(FALSE, NoAliases, StripTrue), Env("development", <<>>, <<>>, warn)>>,
   <<Options(TRUE, TemplateAliases, StripUndefined), Env("development", <<>>, <<>>, <<>>)>>}

loginFile == <<<<"a","p","p">>, <<"l","o","g","i","n",".","j","s">>>>

NoCall == [op |-> "none"]

Init ==
  /\ \E prog \in Programs : ast = Tag(prog, <<>>)
  /\ orig = ast
  /\ todo = <<<<<<>>>>>>
  /\ status = "running"
  /\ \E cfg \in Configs : opts = cfg[1] /\ env = cfg[2]
  /\ file = loginFile
  /\ hist = <<>>
  /\ call = NoCall

Next == VisitLabeledStatement \/ VisitNode

Spec == Init /\ [][Next]_vars

Finished == status = "running" /\ todo = <<>>

(***************************************************************************)
(* shouldStrip alone: every strip value, environment and label             *)
(***************************************************************************)
\* The level-keyed configuration the README gives as the default
ReadmeStrip ==
  StripObject(("log" :> "object") @@ ("trace" :> "true") @@ ("warn" :> "object"))

StripChoices ==
  {StripUndefined, StripFalse, StripTrue, StripString("production"), StripString(""),
   StripObject("production" :> "true"), StripObject("production" :> "false"),
   StripObject("development" :> "object"), ReadmeStrip}

NodeEnvs == {"production", "development", "trace", "", EnvUnset}

TraceContexts == {<<>>, <<":","l","o","g","i","n">>, <<":","U","s","e","r",":",","," ",":","f">>}
TraceFiles == {<<>>, <<"l","o","g","i","n",".","j","s">>, <<"d","b","/","m","o","d","e","l","s">>}
TraceLevels == {<<>>, warn, <<"T","r","a","c","e",","," ","W","A","R","N">>}

StripEnvs ==
  {Env(e, c, f, l) : e \in NodeEnvs, c \in TraceContexts, f \in TraceFiles, l \in TraceLevels}

StripNames == {trace, warn, logLabel, <<"W","a","r","n">>}
StripContexts ==
  {<<"l","o","g","i","n",":","f">>,
   <<"U","s","e","r",":","U","s","e","r",":","l","o","g","i","n">>,
   <<"m","o","d","e","l","s",":">>}
StripFilenames ==
  {PathStr(loginFile),
   PathStr(<<srcDir, <<"d","b">>, <<"m","o","d","e","l","s">>, <<"i","n","d","e","x",".","j","s">>>>),
   PathStr(<<<<"a","p","p">>, <<"L","o","g","i","n",".","j","s","x">>>>)}

EmptyProgram == Tag(Program(<<>>), <<>>)

InitStrip ==
  /\ ast = EmptyProgram
  /\ orig = ast
  /\ todo = <<>>
  /\ status = "running"
  /\ \E s \in StripChoices : opts = Options(FALSE, NoAliases, s)
  /\ env \in StripEnvs
  /\ file = loginFile
  /\ hist = <<>>
  /\ call = NoCall

CallShouldStrip ==
  /\ call = NoCall
  /\ \E name \in StripNames, context \in StripContexts, filename \in StripFilenames :
       LET metadata == [NoMetadata EXCEPT !.context = context, !.filename = filename]
       IN  call' = [op |-> "shouldStrip", name |-> name, metadata |-> metadata,
                    strip |-> opts.strip,
                    result |-> shouldStrip(name, metadata, opts.strip)]
  /\ UNCHANGED <<ast, orig, todo, status, opts, env, file, hist>>

NextStrip == CallShouldStrip

SpecStrip == InitStrip /\ [][NextStrip]_vars

(***************************************************************************)
(* collectMetadata alone: a label below every nesting of scopes, in files  *)
(* of every shape generatePrefix tells apart                               *)
(***************************************************************************)
login == <<"l","o","g","i","n">>
User == <<"U","s","e","r">>
indexJs == <<"i","n","d","e","x",".","j","s">>
models == <<"m","o","d","e","l","s">>

WrapKinds == {"function", "anonymous", "class", "anonymousClass", "if"}

Wrap(kind, ss) ==
  CASE kind = "function" -> Function(login, ss)
    [] kind = "anonymous" -> Function(<<>>, ss)
    [] kind = "class" -> Class(User, login, ss)
    [] kind = "anonymousClass" -> Class(<<>>, <<>>, ss)
    [] kind = "if" -> If(usr, Block(ss))

RECURSIVE Nest(_, _)
Nest(chain, ss) == IF chain = <<>> THEN ss ELSE <<Wrap(Head(chain), Nest(Tail(chain), ss))>>

MaxNest == 2

MetaPrograms ==
  {Program(Nest(chain, <<Label(trace, Expr(hi))>>)) : chain \in SeqsUpTo(WrapKinds, MaxNest)}

MetaFiles ==
  {loginFile,
   <<models, User, indexJs>>,
   <<srcDir, <<"d","b">>, models, indexJs>>,
   <<<<"a","p","p">>, srcDir, indexJs>>,
   <<<<"a","p","p">>, libDir, indexJs>>,
   <<srcDir, indexJs>>,
   <<indexJs>>,
   <<models, <<"i","n","d","e","x",".","t","e","s","t",".","j","s">>>>}

InitMeta ==
  /\ \E prog \in MetaPrograms : ast = Tag(prog, <<>>)
  /\ orig = ast
  /\ todo = <<>>
  /\ status = "running"
  /\ opts = normalizeOpts(Options(FALSE, NoAliases, StripUndefined))
  /\ env = Env("development", <<>>, <<>>, <<>>)
  /\ file \in MetaFiles
  /\ hist = <<>>
  /\ call = NoCall

CallCollectMetadata ==
  /\ call = NoCall
  /\ \E p \in Paths(ast, <<>>) :
       /\ At(ast, p).t = "LabeledStatement"
       /\ call' = [op |-> "collectMetadata", path |-> p,
                   result |-> collectMetadata(ast, p, opts)]
  /\ UNCHANGED <<ast, orig, todo, status, opts, env, file, hist>>

NextMeta == CallCollectMetadata

SpecMeta == InitMeta /\ [][NextMeta]_vars

(***************************************************************************)
(* The default renderer alone                                              *)
(***************************************************************************)
MaxIndent == 3

objectLiteral == Node("ObjectExpression", <<>>, <<>>)                 \* ({})
seq3 == Node("SequenceExpression", <<>>, <<hi, usr, objectLiteral>>)  \* 'hi', u, {}

RenderContents == {hi, usr, objectLiteral, seq, seq3}
RenderLevels == {LogLevelLog, LogLevelWarn}

InitRender ==
  /\ ast = EmptyProgram
  /\ orig = ast
  /\ todo = <<>>
  /\ status = "running"
  /\ opts = Options(FALSE, NoAliases, StripUndefined)
  /\ env = Env("development", <<>>, <<>>, <<>>)
  /\ file = loginFile
  /\ hist = <<>>
  /\ call = NoCall

CallLog ==
  /\ call = NoCall
  /\ \E level \in RenderLevels, context \in StripContexts, indent \in 0..MaxIndent,
        content \in RenderContents :
       LET metadata == [NoMetadata EXCEPT !.context = context, !.indent = indent]
           message == Message(Expr(content), metadata)
       IN  call' = [op |-> "log", level |-> level, metadata |-> metadata,
                    message |-> message, result |-> log(level, message, metadata)]
  /\ UNCHANGED <<ast, orig, todo, status, opts, env, file, hist>>

NextRender == CallLog

SpecRender == InitRender /\ [][NextRender]_vars

(***************************************************************************)
(* Properties                                                              *)
(***************************************************************************)
IsPrefix(q, p) == Len(q) <= Len(p) /\ SubSeq(p, 1, Len(q)) = q

\* The alias table after normalization, and its keys
NormalizedAliases == normalizeOpts(opts).aliases
IsAlias(name) == name \in DOMAIN NormalizedAliases /\ NormalizedAliases[name].kind # "empty"

NoOverrides ==
  env.PRESERVE_CONTEXTS = <<>> /\ env.PRESERVE_FILES = <<>> /\ env.PRESERVE_LEVELS = <<>>

\* The paths of the labeled statements of the input whose label is an alias
AliasLabels == {q \in Paths(orig, <<>>) :
                  At(orig, q).t = "LabeledStatement" /\ IsAlias(At(orig, q).n)}

\* The constructs a logging statement may not contain
SideEffects == {"VariableDeclaration", "FunctionDeclaration", "FunctionExpression",
                "ArrowFunctionExpression", "ClassMethod", "ObjectMethod",
                "AssignmentExpression", "UpdateExpression", "YieldExpression",
                "ReturnStatement"}

RECURSIVE HasSideEffect(_)
HasSideEffect(n) == n.t \in SideEffects \/ \E i \in DOMAIN n.k : HasSideEffect(n.k[i])

\* C1: with strip: true and no override set, once the traversal is over the
\* tree holds no statement marked as rendered, no node the plugin created and
\* no node that comes from an alias label of the input or from its body; and
\* the traversal never fails.
C1_StripInvariant ==
  (opts.strip.kind = "true" /\ NoOverrides) =>
    /\ status = "running"
    /\ Finished =>
         \A p \in Paths(ast, <<>>) :
           LET n == At(ast, p)
           IN  /\ ~n.h
               /\ n.o # <<0>>
               /\ \A q \in AliasLabels : ~IsPrefix(q, n.o)

\* C1 witness: a finished traversal under strip: true that removed two alias
\* labels, one of them with a block body
C1_Witness ==
  /\ opts.strip.kind = "true" /\ NoOverrides /\ Finished
  /\ \E i, j \in DOMAIN hist :
       /\ i # j
       /\ hist[i].outcome = "stripped" /\ hist[j].outcome = "stripped"
       /\ IsAlias(hist[i].name) /\ IsAlias(hist[j].name)
       /\ hist[i].node.k[1].t = "BlockStatement"
  /\ ast # orig

\* The step is a call of the handler on an alias label that is not stripped
\* and that does not throw
UnwrapStep ==
  /\ Len(hist') = Len(hist) + 1
  /\ LET e == hist'[Len(hist')]
     IN  /\ IsAlias(e.name)
         /\ ~shouldStrip(e.name, e.metadata, opts'.strip)
         /\ status' = "running"

\* The label handled by the step is replaced, in its parent, by the
\* statements of its body in their order: one for a single statement, N for
\* a block of N; nothing else in the tree changes
Unwrapped ==
  LET e == hist'[Len(hist')]
      p == e.path
      parent == SubSeq(p, 1, Len(p) - 1)
      i == p[Len(p)]
      body == e.node.k[1]
      stmts == IF body.t = "BlockStatement" THEN body.k ELSE <<body>>
      N == IF body.t = "BlockStatement" THEN Len(body.k) ELSE 1
      before == At(ast, parent).k
      after == At(ast', parent).k
  IN  /\ Len(after) = Len(before) - 1 + N
      /\ \A j \in 1..N : after[i + j - 1].o = stmts[j].o /\ after[i + j - 1].t = stmts[j].t
      /\ \A j \in 1..(i - 1) : after[j] = before[j]
      /\ \A j \in (i + 1)..Len(before) : after[j + N - 1] = before[j]
      /\ ast' = SpliceAt(ast, p, SubSeq(after, i, i + N - 1))

\* No labeled statement of the tree has an alias as its label
NoAliasLabelLeft ==
  \A p \in Paths(ast, <<>>) : ~(At(ast, p).t = "LabeledStatement" /\ IsAlias(At(ast, p).n))

\* C3: handling an alias label that is not stripped and passes validation
\* replaces it in its parent by the statements of its body, in order (1 for a
\* single statement, N for a block of N); and when the traversal is over no
\* labeled statement with an alias label is left, nested ones included.
C3_UnwrapInvariant == [][UnwrapStep => Unwrapped]_vars /\ [](Finished => NoAliasLabelLeft)

\* C3 witness: a finished traversal that unwrapped a block of two statements
\* and an alias label nested in the body of another
C3_Witness ==
  /\ Finished
  /\ \E i, j \in DOMAIN hist :
       /\ i # j
       /\ hist[i].outcome = "rewritten" /\ hist[j].outcome = "rewritten"
       /\ IsAlias(hist[i].name) /\ IsAlias(hist[j].name)
       /\ hist[i].count = 2
       /\ IsPrefix(hist[i].o, hist[j].o)

\* C4: a call of the handler on a label that is no key of the normalized
\* alias table changes nothing in the tree, collects no metadata and raises
\* no error, whatever the label's name.
C4_NonAliasPassthrough ==
  \A i \in DOMAIN hist :
    hist[i].name \notin DOMAIN NormalizedAliases =>
      /\ ~hist[i].changed
      /\ hist[i].metadata = NoMetadata
      /\ hist[i].err = NoError

\* C5: for an alias label that is not stripped, the side-effect error is
\* raised exactly when the body holds, at any depth, one of the constructs
\* of the deny list; without any, the statement is rewritten.
C5_SideEffectRejection ==
  \A i \in DOMAIN hist :
    LET e == hist[i]
    IN  (IsAlias(e.name) /\ ~shouldStrip(e.name, e.metadata, opts.strip)) =>
          IF HasSideEffect(e.node.k[1])
          THEN e.err = SideEffectError
          ELSE e.err = NoError /\ e.outcome = "rewritten"

\* C6: every alias label whose body holds a construct of the deny list makes
\* the compilation fail with the side-effect error, under every strip
\* configuration and every override.
C6_AlwaysSurfaced ==
  \A i \in DOMAIN hist :
    (IsAlias(hist[i].name) /\ HasSideEffect(hist[i].node.k[1])) =>
      hist[i].err = SideEffectError /\ status = "error"

\* The scopes collectMetadata stops at, below the program
ScopeTypes == FunctionTypes \cup {"ClassDeclaration"}

\* The paths of the scopes of the input that enclose the node of origin o
EnclosingScopes(o) ==
  {q \in Paths(orig, <<>>) : IsPrefix(q, o) /\ q # o /\ At(orig, q).t \in ScopeTypes}

\* The function of the input whose body holds the statement of origin o as
\* its i-th statement
IsStatementOf(o, f, i) ==
  /\ At(orig, f).t \in FunctionTypes
  /\ o = f \o <<1, i>>
  /\ i \in DOMAIN At(orig, f).k[1].k

BothFlags(e, has, is) ==
  e.metadata.hasStartMessage = has /\ e.metadata.isStartMessage = is

\* The body of the function at f begins with two consecutive alias labels
BeginsWithTwoLabels(f) ==
  LET b == At(orig, f).k[1].k
  IN  /\ At(orig, f).t \in FunctionTypes
      /\ Len(b) >= 2
      /\ b[1].t = "LabeledStatement" /\ IsAlias(b[1].n)
      /\ b[2].t = "LabeledStatement" /\ IsAlias(b[2].n)

\* A label at the program root has both flags false
RootFlags ==
  \A i \in DOMAIN hist :
    (IsAlias(hist[i].name) /\ EnclosingScopes(hist[i].o) = {}) => BothFlags(hist[i], FALSE, FALSE)

\* The first of two labels at the start of a function is the start message
FirstLabelFlags ==
  \A f \in Paths(orig, <<>>) : \A i \in DOMAIN hist :
    (BeginsWithTwoLabels(f) /\ hist[i].o = f \o <<1, 1>>) => BothFlags(hist[i], TRUE, TRUE)

\* The statement the rewritten label leaves first is a rendered one: its body
\* is an expression statement or a block that begins with one
LeavesRenderedFirst(label) ==
  LET body == label.k[1]
  IN  \/ body.t = "ExpressionStatement"
      \/ body.t = "BlockStatement" /\ body.k # <<>> /\ body.k[1].t = "ExpressionStatement"

\* C9 as stated: of two consecutive alias labels at the start of a function
\* body the first has isStartMessage and hasStartMessage true, the second,
\* handled after the first was rewritten, has isStartMessage false and
\* hasStartMessage true; a logging label that follows a non-labeled
\* statement has both flags false; a label at the program root has both
\* flags false.
C9_StartMessageAsStated ==
  /\ FirstLabelFlags
  /\ \A f \in Paths(orig, <<>>) : \A i, j \in DOMAIN hist :
       (/\ BeginsWithTwoLabels(f)
        /\ hist[i].o = f \o <<1, 1>> /\ hist[i].outcome = "rewritten"
        /\ hist[j].o = f \o <<1, 2>>) => BothFlags(hist[j], TRUE, FALSE)
  /\ \A f \in Paths(orig, <<>>) : \A i \in DOMAIN hist : \A n \in 2..3 :
       (/\ IsAlias(hist[i].name)
        /\ IsStatementOf(hist[i].o, f, n)
        /\ At(orig, f).k[1].k[n - 1].t # "LabeledStatement") => BothFlags(hist[i], FALSE, FALSE)
  /\ RootFlags

\* C9: of two consecutive alias labels at the start of a function body the
\* first has both flags true; the second has isStartMessage false and
\* hasStartMessage true when the first was rewritten and left a rendered
\* statement first; a logging label in a function whose body begins with a
\* non-labeled statement has both flags false; a label at the program root
\* has both flags false.
C9_StartMessage ==
  /\ FirstLabelFlags
  /\ \A f \in Paths(orig, <<>>) : \A i, j \in DOMAIN hist :
       (/\ BeginsWithTwoLabels(f)
        /\ hist[i].o = f \o <<1, 1>> /\ hist[i].outcome = "rewritten"
        /\ LeavesRenderedFirst(hist[i].node)
        /\ hist[j].o = f \o <<1, 2>>) => BothFlags(hist[j], TRUE, FALSE)
  /\ \A f \in Paths(orig, <<>>) : \A i \in DOMAIN hist :
       (/\ IsAlias(hist[i].name)
        /\ At(orig, f).t \in FunctionTypes
        /\ f \in EnclosingScopes(hist[i].o)
        /\ At(orig, f).k[1].k[1].t # "LabeledStatement") => BothFlags(hist[i], FALSE, FALSE)
  /\ RootFlags

\* C9 witness: both labels at the start of a function were handled, the
\* first rewritten into a rendered statement, the second after it
C9_Witness ==
  \E f \in Paths(orig, <<>>) : \E i, j \in DOMAIN hist :
    /\ BeginsWithTwoLabels(f)
    /\ i < j
    /\ hist[i].o = f \o <<1, 1>> /\ hist[i].outcome = "rewritten"
    /\ LeavesRenderedFirst(hist[i].node)
    /\ BothFlags(hist[i], TRUE, TRUE)
    /\ hist[j].o = f \o <<1, 2>>
    /\ BothFlags(hist[j], TRUE, FALSE)

\* The strip configuration applies: it is truthy and is true, or names the
\* current environment, or holds a truthy entry for it
ConfigurationApplies(strip) ==
  /\ strip.kind \notin {"undefined", "false"}
  /\ ~(strip.kind = "string" /\ strip.s = "")
  /\ \/ strip.kind = "true"
     \/ strip.kind = "string" /\ env.NODE_ENV # EnvUnset /\ strip.s = env.NODE_ENV
     \/ /\ strip.kind = "object"
        /\ env.NODE_ENV \in DOMAIN strip.o
        /\ strip.o[env.NODE_ENV] # "false"

\* needle occurs in hay at position i
OccursAt(hay, needle, i) ==
  /\ i + Len(needle) - 1 <= Len(hay)
  /\ \A j \in 1..Len(needle) : hay[i + j - 1] = needle[j]

IsSubstring(needle, hay) == \E i \in 1..(Len(hay) + 1) : OccursAt(hay, needle, i)

\* One of the three overrides matches the label of the call
OverrideMatches(c) ==
  \/ \E i \in DOMAIN env.PRESERVE_CONTEXTS :
       IsSubstring(env.PRESERVE_CONTEXTS[i], toLowerCase(c.metadata.context))
  \/ \E i \in DOMAIN env.PRESERVE_FILES :
       IsSubstring(env.PRESERVE_FILES[i], toLowerCase(c.metadata.filename))
  \/ \E i \in DOMAIN env.PRESERVE_LEVELS : toLowerCase(c.name) = env.PRESERVE_LEVELS[i]

\* C2: shouldStrip returns true exactly when the strip configuration applies
\* and none of the three overrides matches; when the configuration does not
\* apply the result is false whatever the overrides hold; and with strip:
\* true and TRACE_LEVEL=warn a warn: label is kept and a trace: label is
\* stripped.
C2_ShouldStrip ==
  call.op = "shouldStrip" =>
    /\ call.result <=> (ConfigurationApplies(call.strip) /\ ~OverrideMatches(call))
    /\ ~ConfigurationApplies(call.strip) => ~call.result
    /\ (/\ call.strip.kind = "true"
        /\ env.PRESERVE_LEVELS = <<warn>>
        /\ env.PRESERVE_CONTEXTS = <<>> /\ env.PRESERVE_FILES = <<>>) =>
         /\ call.name = warn => ~call.result
         /\ call.name = trace => call.result

\* C2 witness: under strip: true and TRACE_LEVEL=Trace, WARN a label written
\* Warn is kept
C2_Witness ==
  /\ call.op = "shouldStrip"
  /\ call.strip.kind = "true"
  /\ env.PRESERVE_LEVELS = <<trace, warn>>
  /\ env.PRESERVE_CONTEXTS = <<>> /\ env.PRESERVE_FILES = <<>>
  /\ call.name = <<"W","a","r","n">>
  /\ ~call.result

\* The policy the README's level-keyed configuration spells out
ReadmePolicy(name) ==
  CASE name = trace -> TRUE
    [] name \in {logLabel, warn} -> env.NODE_ENV = "production"
    [] OTHER -> FALSE

\* C10: without a strip option and without overrides a trace: label is
\* stripped in every environment and log: and warn: labels are stripped in
\* production; the level-keyed configuration of the README strips by the
\* label's name.
C10_DefaultStripPolicy ==
  (call.op = "shouldStrip" /\ NoOverrides) =>
    /\ call.strip.kind = "undefined" =>
         /\ call.name = trace => call.result
         /\ (call.name \in {logLabel, warn} /\ env.NODE_ENV = "production") => call.result
    /\ (call.strip = ReadmeStrip /\ call.name \in {trace, logLabel, warn}) =>
         call.result = ReadmePolicy(call.name)

\* The file's basename without its extension
BaseWithoutExtension(name) ==
  LET dots == {i \in DOMAIN name : name[i] = "." /\ i > 1}
  IN  IF dots = {} THEN name
      ELSE SubSeq(name, 1, (CHOOSE i \in dots : \A j \in dots : j <= i) - 1)

\* The prefix of a file, given as the segments of its path
ContextPrefix(f) ==
  LET n == Len(f)
      base == BaseWithoutExtension(f[n])
      up(k) == IF n - k >= 1 THEN f[n - k] ELSE <<>>
  IN  IF base # index THEN base
      ELSE IF up(1) \notin {srcDir, libDir} THEN up(1)
      ELSE up(2)

\* The name a scope contributes to the context
ScopeName(node) ==
  IF node.n # <<>> THEN node.n
  ELSE CASE node.t = "ClassMethod" -> computedMethodName
         [] node.t = "ClassDeclaration" -> anonymousClassName(LineOf(node))
         [] OTHER -> anonymousName(LineOf(node))

\* The names of the scopes around the node at p, from depth d on: outermost
\* first, each followed by ":" unless it is the last
RECURSIVE ScopeNames(_, _)
ScopeNames(p, d) ==
  IF d >= Len(p) THEN <<>>
  ELSE LET node == At(ast, SubSeq(p, 1, d))
           rest == ScopeNames(p, d + 1)
       IN  IF node.t \in ScopeTypes
           THEN ScopeName(node) \o (IF rest = <<>> THEN <<>> ELSE <<":">> \o rest)
           ELSE rest

\* C7: the context is prefix ":" parentName; the prefix is the basename
\* without extension, for index the parent directory's name, for src and lib
\* the name one level further up; parentName is the names of the enclosing
\* class methods, classes and functions, outermost first, joined with ":".
\* Method login of class User in models/User/index.js gives User:User:login,
\* and src/db/models/index.js gives the prefix models.
C7_ContextDerivation ==
  call.op = "collectMetadata" =>
    /\ call.result.prefix = ContextPrefix(file)
    /\ call.result.parentName = ScopeNames(call.path, 0)
    /\ call.result.context = ContextPrefix(file) \o <<":">> \o ScopeNames(call.path, 0)
    /\ (file = <<models, User, indexJs>> /\ ast = Tag(Program(<<Class(User, login, <<Label(trace, Expr(hi))>>)>>), <<>>)) =>
         call.result.context = <<"U","s","e","r",":","U","s","e","r",":","l","o","g","i","n">>
    /\ file = <<srcDir, <<"d","b">>, models, indexJs>> => call.result.prefix = models

\* C7 witness: the label inside method login of class User, itself inside a
\* function, in models/User/index.js
C7_Witness ==
  /\ call.op = "collectMetadata"
  /\ file = <<models, User, indexJs>>
  /\ call.result.context =
       <<"U","s","e","r",":","l","o","g","i","n",":","U","s","e","r",":","l","o","g","i","n">>

\* n repetitions of two spaces
RECURSIVE Spaces(_)
Spaces(n) == IF n = 0 THEN <<>> ELSE <<" ", " ">> \o Spaces(n - 1)

\* C8: the default renderer returns a call of console.<level> whose first
\* argument is the string literal context ":" followed by indent times two
\* spaces; a comma sequence of N expressions gives N + 1 arguments, the
\* expressions in their order; any other payload gives two arguments, the
\* prefix and the payload.
C8_DefaultRenderer ==
  call.op = "log" =>
    LET r == call.result
        content == call.message.content
    IN  /\ r.t = "CallExpression"
        /\ r.k[1].t = "MemberExpression"
        /\ r.k[1].k = <<identifier(console), identifier(call.level)>>
        /\ r.k[2].t = "StringLiteral"
        /\ r.k[2].n = call.metadata.context \o <<":">> \o Spaces(call.metadata.indent)
        /\ IF content.t = "SequenceExpression"
           THEN /\ Len(r.k) = Len(content.k) + 2
                /\ \A j \in DOMAIN content.k : r.k[j + 2] = content.k[j]
           ELSE Len(r.k) = 3 /\ r.k[3] = content

\* C8 witness: a sequence of three expressions rendered at indent 1
C8_Witness ==
  /\ call.op = "log"
  /\ call.message.content = seq3
  /\ call.metadata.indent = 1
  /\ Len(call.result.k) = 5
  /\ call.result.k[1].k[2].n = LogLevelWarn

(***************************************************************************)
(* A label handled up to its rendering: collectMetadata, then the label's  *)
(* renderer on the message of its body, for the labels of a function that  *)
(* holds an if / else-if chain                                             *)
(***************************************************************************)
authenticate == <<"a","u","t","h","e","n","t","i","c","a","t","e">>

MaxChain == 3

\* if (u) { l: 'hi' } else if (u) { l: 'hi' } ... with n branches
RECURSIVE Chain(_, _)
Chain(n, l) ==
  IF n <= 1 THEN If(usr, Block(<<Label(l, Expr(hi))>>))
  ELSE IfElse(usr, Block(<<Label(l, Expr(hi))>>), Chain(n - 1, l))

ChainPrograms ==
  {Program(<<Function(authenticate,
                      <<Label(l, Expr(seq)), Chain(n, l), Label(l, Expr(hi))>>)>>) :
     l \in {trace, logLabel, warn}, n \in 1..MaxChain}

InitIndent ==
  /\ \E prog \in ChainPrograms : ast = Tag(prog, <<>>)
  /\ orig = ast
  /\ todo = <<>>
  /\ status = "running"
  /\ opts = normalizeOpts(Options(FALSE, NoAliases, StripUndefined))
  /\ env = Env("development", <<>>, <<>>, <<>>)
  /\ file \in MetaFiles
  /\ hist = <<>>
  /\ call = NoCall

CallRenderLabel ==
  /\ call = NoCall
  /\ \E p \in Paths(ast, <<>>) :
       /\ At(ast, p).t = "LabeledStatement"
       /\ LET label == At(ast, p)
              metadata == collectMetadata(ast, p, opts)
              message == Message(label.k[1], metadata)
          IN  call' = [op |-> "render", path |-> p, metadata |-> metadata,
                       result |-> Render(AliasLookup(opts.aliases, label.n), message, metadata)]
  /\ UNCHANGED <<ast, orig, todo, status, opts, env, file, hist>>

NextIndent == CallRenderLabel

SpecIndent == InitIndent /\ [][NextIndent]_vars

\* The label of the call stands directly in the function's body
DirectlyInFunction(p) == At(ast, SubSeq(p, 1, Len(p) - 2)).t \in FunctionTypes

\* C11: a label in the block of any branch of an if / else-if chain is
\* rendered with one unit of two spaces after "context:", a label directly
\* in the function's body with none.
C11_ReadmeIndent ==
  call.op = "render" =>
    LET shown == call.result.k[2].n
        context == call.metadata.context \o <<":">>
    IN  IF DirectlyInFunction(call.path)
        THEN shown = context
        ELSE shown = context \o <<" ", " ">>

(***************************************************************************)
(* normalizeOpts alone, called again and again on one options object, as   *)
(* the handler does at every label                                         *)
(***************************************************************************)
MaxCalls == 3

\* The values an aliases option may hold for a key: a template text, the
\* empty text, a renderer function
AliasValues ==
  {Renderer("string", <<>>, KeepTemplate), Renderer("string", <<>>, TestWarnTemplate),
   Renderer("empty", <<>>, NoNode), Renderer("console", LogLevelWarn, NoNode)}

\* The aliases options: every object over a subset of the keys trace and
\* warn, the empty object included
AliasObjects == UNION {[keys -> AliasValues] : keys \in SUBSET {trace, warn}}

NormConfigs ==
  {Options(FALSE, NoAliases, strip) : strip \in {StripUndefined, StripTrue}}
  \cup {Options(TRUE, aliases, strip) :
          aliases \in AliasObjects, strip \in {StripUndefined, StripTrue}}

InitNorm ==
  /\ ast = EmptyProgram
  /\ orig = ast
  /\ todo = <<>>
  /\ status = "running"
  /\ opts \in NormConfigs
  /\ env = Env("development", <<>>, <<>>, <<>>)
  /\ file = loginFile
  /\ hist = <<>>
  /\ call = NoCall

\* opts = normalizeOpts(babel, opts): the object is changed in place
CallNormalizeOpts ==
  /\ IF call = NoCall
     THEN /\ opts' = normalizeOpts(opts)
          /\ call' = [op |-> "normalizeOpts", n |-> 1, given |-> opts, once |-> opts']
     ELSE /\ call.op = "normalizeOpts"
          /\ call.n < MaxCalls
          /\ opts' = normalizeOpts(opts)
          /\ call' = [call EXCEPT !.n = @ + 1]
  /\ UNCHANGED <<ast, orig, todo, status, env, file, hist>>

NextNorm == CallNormalizeOpts

SpecNorm == InitNorm /\ [][NextNorm]_vars

\* C12: after normalizeOpts the alias table holds at least one entry; a
\* configuration without aliases gets exactly the keys log, trace and warn,
\* log and trace with the same console.log renderer, warn with a
\* console.warn renderer.
C12_AliasTableNeverEmpty ==
  call.op = "normalizeOpts" =>
    /\ DOMAIN opts.aliases # {}
    /\ ~call.given.hasAliases =>
         /\ DOMAIN opts.aliases = {logLabel, trace, warn}
         /\ opts.aliases[trace] = opts.aliases[logLabel]
         /\ opts.aliases[logLabel] = Renderer("console", LogLevelLog, NoNode)
         /\ opts.aliases[warn] = Renderer("console", LogLevelWarn, NoNode)

\* C13: two or more calls of normalizeOpts on one options object leave the
\* alias table a single call leaves, key by key, and a template text is
\* wrapped once: the renderer of its key is the wrapper of the text given.
C13_IdempotentNormalization ==
  (call.op = "normalizeOpts" /\ call.n >= 2) =>
    /\ DOMAIN opts.aliases = DOMAIN call.once.aliases
    /\ \A key \in DOMAIN opts.aliases : opts.aliases[key] = call.once.aliases[key]
    /\ call.given.hasAliases =>
         \A key \in DOMAIN call.given.aliases :
           call.given.aliases[key].kind = "string" =>
             opts.aliases[key] = Renderer("template", <<>>, call.given.aliases[key].tpl)

\* C13 witness: a third call on options that gave a template text for trace
C13_Witness ==
  /\ call.op = "normalizeOpts"
  /\ call.n >= 3
  /\ call.given.hasAliases
  /\ trace \in DOMAIN call.given.aliases
  /\ call.given.aliases[trace] = Renderer("string", <<>>, KeepTemplate)
  /\ opts.aliases[trace].kind = "template"

RECURSIVE HasClass(_)
HasClass(n) ==
  n.t \in {"ClassDeclaration", "ClassExpression"} \/ \E i \in DOMAIN n.k : HasClass(n.k[i])

\* C14: an alias label that is not stripped and whose body holds a class
\* definition, a class without methods included, raises the side-effect
\* error.
C14_ClassRejected ==
  \A i \in DOMAIN hist :
    LET e == hist[i]
    IN  (/\ IsAlias(e.name)
         /\ ~shouldStrip(e.name, e.metadata, opts.strip)
         /\ HasClass(e.node.k[1])) => e.err = SideEffectError

\* The step is a call of the handler that rewrites an alias label
RewriteStep ==
  /\ Len(hist') = Len(hist) + 1
  /\ IsAlias(hist'[Len(hist')].name)
  /\ hist'[Len(hist')].outcome = "rewritten"

\* Of the statements the label leaves in its parent, the expression
\* statements that were direct children of its body and were not handled
\* are rendered ones, and every other statement is what it was, with all
\* that is nested in it
OnlyDirectChildrenRewritten ==
  LET e == hist'[Len(hist')]
      p == e.path
      i == p[Len(p)]
      body == e.node.k[1]
      stmts == IF body.t = "BlockStatement" THEN body.k ELSE <<body>>
      after == At(ast', SubSeq(p, 1, Len(p) - 1)).k
  IN  \A j \in DOMAIN stmts :
        IF stmts[j].t = "ExpressionStatement" /\ ~stmts[j].h
        THEN after[i + j - 1].h /\ after[i + j - 1].o = stmts[j].o
        ELSE after[i + j - 1] = stmts[j]

\* The innermost alias label of the input around the node of origin o
OwnLabel(o) ==
  CHOOSE q \in AliasLabels :
    /\ IsPrefix(q, o) /\ q # o
    /\ \A q2 \in AliasLabels : (IsPrefix(q2, o) /\ q2 # o) => Len(q2) <= Len(q)

\* Every rendered statement of the tree is a call of the console function
\* of the innermost alias label that was around it in the input
RenderedByOwnAlias ==
  \A p \in Paths(ast, <<>>) :
    LET n == At(ast, p)
    IN  (/\ n.t = "ExpressionStatement" /\ n.h
         /\ NormalizedAliases[At(orig, OwnLabel(n.o)).n].kind = "console") =>
          n.k[1].k[1].k[2].n = NormalizedAliases[At(orig, OwnLabel(n.o)).n].level

\* C15: rewriting an alias label replaces the expression statements that are
\* direct children of its body and not handled, and leaves every statement
\* nested deeper as it was; so a logging label nested in the body of another
\* is rendered by the renderer of its own alias.
C15_OnlyDirectChildren ==
  [][RewriteStep => OnlyDirectChildrenRewritten]_vars /\ [](Finished => RenderedByOwnAlias)

\* C16: when the validation of an alias label with a body of several
\* statements fails, no statement of the body has been replaced or marked
\* handled at the moment the error is raised, and the labeled statement is
\* in the tree as it was.
C16_ValidationPrecedesRewriting ==
  \A i \in DOMAIN hist :
    LET e == hist[i]
    IN  (/\ IsAlias(e.name)
         /\ e.err = SideEffectError
         /\ e.node.k[1].t = "BlockStatement"
         /\ Len(e.node.k[1].k) >= 2) =>
          /\ ~e.changed
          /\ At(ast, e.path) = e.node
          /\ \A q \in Paths(At(ast, e.path), <<>>) : ~At(At(ast, e.path), q).h

====
